---- MODULE Spec2Model ----
(***************************************************************************)
(* Event-driven GPIO monitor (event_monitor.c): a notification handler     *)
(* (gpio_change_callback) counts rising edges on the monitored input bits  *)
(* under an RTOS mutex, and a periodic task (monitor_task) drains the      *)
(* counter under the same mutex and hands the drained value to             *)
(* report_event_count.                                                     *)
(*                                                                         *)
(* A 32-bit sample or mask is represented by the set of its bit positions  *)
(* that are 1 (a subset of 0..31), so that bit 31 is representable: x & y  *)
(* is the intersection, ~x the complement within 0..31, and x & (1u << i)  *)
(* is non-zero iff i is a member.                                          *)
(***************************************************************************)
EXTENDS Integers, FiniteSets, Sequences, TLC

\* ---------------------------------------------------------------- bounds
\* number of notifications delivered in one behaviour
MaxNotifs == 3

\* number of notifications delivered in one behaviour of FairSpec
MaxFairNotifs == 2

\* ------------------------------------------------------------- bitfields
\* for (i = 0; i < 32; ++i): the width of gpio_mask_t / uint32_t
NBITS == 32

BitPos == 0 .. (NBITS - 1)

RECURSIVE Pow2(_)
Pow2(n) == IF n = 0 THEN 1 ELSE 2 * Pow2(n - 1)

\* the bitfield of a non-negative literal below 2^31
Field(n) == { b \in 0 .. 30 : (n \div Pow2(b)) % 2 = 1 }

\* ~x on a 32-bit value
Not32(x) == BitPos \ x

\* x & y
And32(x, y) == x \cap y

\* the 0x80000000 bit
TopBit == {31}

\* ------------------------------------------------------------- uint32_t
\* A uint32_t value v is represented by the integer with the same 32 bits
\* in two's complement: v itself below 2^31, and v - 2^32 from 2^31 on (so
\* 0xFFFFFFFF is -1 and 0x80000000 is INT32_MIN). Values below 2^31 are
\* their own representation.
INT32_MAX == 2147483647

INT32_MIN == (-INT32_MAX) - 1

U32 == INT32_MIN .. INT32_MAX

\* the counter stays at 0xFFFFFFFF
Inc32_Saturate(x) ==
    IF x = -1 THEN -1 ELSE IF x = INT32_MAX THEN INT32_MIN ELSE x + 1

\* ++x on a uint32_t: 0x7FFFFFFF + 1 is 0x80000000, 0xFFFFFFFF + 1 is 0
Inc32(x) == IF x = INT32_MAX THEN INT32_MIN ELSE x + 1

\* a + b on uint32_t, modulo 2^32
Add32(a, b) ==
    IF a >= 0 /\ b >= 0 /\ a > INT32_MAX - b
      THEN (a - INT32_MAX - 1) + (b - INT32_MAX - 1)
      ELSE IF a < 0 /\ b < 0 /\ a < INT32_MIN - b
             THEN (a + INT32_MAX + 1) + (b + INT32_MAX + 1)
             ELSE a + b

\* samples the input source delivers: 0x00, 0x03, 0x05 and 0xFF are used by
\* test_event_monitor.c; 0x80000005 exercises bit 31
Samples == { Field(0), Field(3), Field(5), Field(255), Field(5) \cup TopBit }

\* masks passed to event_monitor_init: 0x00, 0x05 (the tests') and 0x800000FF
Masks == { Field(0), Field(5), Field(255) \cup TopBit }

\* input states the lines can be in when event_monitor_init runs
Inputs == { Field(0), Field(3) }

VARIABLES
    event_count,           \* volatile uint32_t event_count
    monitored_mask,        \* static uint32_t monitored_mask
    previous_state,        \* static gpio_mask_t previous_state
    init_pc,               \* position of event_monitor_init
    init_mask,             \* argument of event_monitor_init
    cb_pc,                 \* position of gpio_change_callback
    new_state,             \* argument of gpio_change_callback
    rising_edges,          \* local of gpio_change_callback
    i,                     \* local of gpio_change_callback
    cb_tmp,                \* the value loaded by ++event_count
    task_pc,               \* position of monitor_task ("none": not created)
    count,                 \* local of monitor_task
    task2_pc,              \* position of the monitor_task created by a second
                           \* call of event_monitor_init ("none": not created)
    count2,                \* local of that second monitor_task
    mutex,                 \* owner of the RTOS mutex: "free", "cb", "task"
    simulated_state,       \* the state of the input lines
    static_callback,       \* TRUE once the handler is registered
    total_events_counted,  \* sum of the arguments of report_event_count
    last_report,           \* argument of the last report_event_count call
    notifs,                \* history: notifications delivered so far
    sum_c,                 \* history: sum of c_i of the finished notifications
    expected,              \* history: sum of popcount(~prev & new & mask) of the
                           \* notifications delivered
    cb_prev,               \* history: previous_state when the running handler was
                           \* entered ({} when it is not running)
    cb_base,               \* history: event_count when the running handler took
                           \* the mutex (0 when it is not running)
    captured,              \* history: the input state read by event_monitor_init
                           \* ({} once the first notification has finished)
    outstanding,           \* history: drains whose value has not been reported
    drained,               \* history: value read by the last drain
    reports,               \* history: TRUE once report_event_count has been called
    idle_drain,            \* history: a drain was made and no notification was
                           \* pending at it or delivered since
    sleeps                 \* history: returns of rtos_task_delay_ms since the
                           \* task's last report

vars == << event_count, monitored_mask, previous_state, init_pc, init_mask,
           cb_pc, new_state, rising_edges, i, cb_tmp, task_pc, count, task2_pc,
           count2, mutex,
           simulated_state, static_callback, total_events_counted,
           last_report, notifs, sum_c, expected, cb_prev, cb_base, captured,
           outstanding, drained, reports, idle_drain, sleeps >>

progVars == << event_count, monitored_mask, previous_state >>
initVars == << init_pc, init_mask >>
cbVars   == << cb_pc, new_state, rising_edges, i, cb_tmp >>
t2Vars   == << task2_pc, count2 >>
taskVars == << task_pc, count, t2Vars >>
envVars  == << simulated_state, static_callback >>
repVars  == << total_events_counted, last_report, reports >>
cbHist   == << notifs, sum_c, expected, cb_prev, cb_base >>
taskHist == << outstanding, drained, idle_drain, sleeps >>

TypeOK ==
    /\ event_count \in U32
    /\ monitored_mask \subseteq BitPos
    /\ previous_state \subseteq BitPos
    /\ init_pc \in {"mask", "capture", "register", "create", "done"}
    /\ init_mask \in Masks
    /\ cb_pc \in {"idle", "lock", "loop", "incr", "unlock"}
    /\ new_state \subseteq BitPos
    /\ rising_edges \subseteq BitPos
    /\ i \in 0 .. NBITS
    /\ cb_tmp \in U32
    /\ task_pc \in {"none", "delay", "lock", "read", "reset", "unlock", "report"}
    /\ count \in U32
    /\ task2_pc \in {"none", "delay", "lock", "read", "reset", "unlock", "report"}
    /\ count2 \in U32
    /\ mutex \in {"free", "cb", "task", "task2"}
    /\ simulated_state \subseteq BitPos
    /\ static_callback \in BOOLEAN
    /\ total_events_counted \in U32
    /\ last_report \in U32
    /\ notifs \in 0 .. MaxNotifs
    /\ sum_c \in U32
    /\ expected \in U32
    /\ outstanding \in Nat
    /\ reports \in BOOLEAN
    /\ idle_drain \in BOOLEAN
    /\ sleeps \in Nat

\* ------------------------------------------------------------ the program
\* the three file-scope variables are zero-initialised; event_monitor_init
\* has been called with some mask while the lines are in some state
Init ==
    /\ event_count = 0
    /\ monitored_mask = {}
    /\ previous_state = {}
    /\ init_pc = "mask"
    /\ init_mask \in Masks
    /\ cb_pc = "idle"
    /\ new_state = {}
    /\ rising_edges = {}
    /\ i = 0
    /\ cb_tmp = 0
    /\ task_pc = "none"
    /\ count = 0
    /\ task2_pc = "none"
    /\ count2 = 0
    /\ mutex = "free"
    /\ simulated_state \in Inputs
    /\ static_callback = FALSE
    /\ total_events_counted = 0
    /\ last_report = 0
    /\ notifs = 0
    /\ sum_c = 0
    /\ expected = 0
    /\ cb_prev = {}
    /\ cb_base = 0
    /\ captured = {}
    /\ outstanding = 0
    /\ drained = 0
    /\ reports = FALSE
    /\ idle_drain = FALSE
    /\ sleeps = 0

\* gpio_read_input(): the current state of the lines
gpio_read_input == simulated_state

\* gpio_register_callback(gpio_change_callback); monitored_mask = mask;
Init_store_mask_Registered ==
    /\ init_pc = "mask"
    /\ static_callback' = TRUE
    /\ monitored_mask' = init_mask
    /\ init_pc' = "capture"
    /\ UNCHANGED << event_count, previous_state, init_mask, cbVars, taskVars,
                    mutex, simulated_state, repVars, cbHist, captured,
                    taskHist >>

\* monitored_mask = mask;
Init_store_mask ==
    /\ init_pc = "mask"
    /\ monitored_mask' = init_mask
    /\ init_pc' = "capture"
    /\ UNCHANGED << event_count, previous_state, init_mask, cbVars, taskVars,
                    mutex, envVars, repVars, cbHist, captured, taskHist >>

\* previous_state keeps its static initialiser
InitialPrevious_Zero(input) == {}

\* the value event_monitor_init stores as the first previous sample
InitialPrevious(input) == input

\* previous_state = gpio_read_input();
Init_capture ==
    /\ init_pc = "capture"
    /\ previous_state' = InitialPrevious(gpio_read_input)
    /\ captured' = gpio_read_input
    /\ init_pc' = "register"
    /\ UNCHANGED << event_count, monitored_mask, init_mask, cbVars, taskVars,
                    mutex, envVars, repVars, cbHist, taskHist >>

\* gpio_register_callback(gpio_change_callback);
Init_register ==
    /\ init_pc = "register"
    /\ static_callback' = TRUE
    /\ init_pc' = "create"
    /\ UNCHANGED << progVars, init_mask, cbVars, taskVars, mutex,
                    simulated_state, repVars, cbHist, captured, taskHist >>

\* rtos_task_create(&task, monitor_task, NULL); the task starts at its loop
Init_create ==
    /\ init_pc = "create"
    /\ task_pc = "none"
    /\ task_pc' = "delay"
    /\ init_pc' = "done"
    /\ UNCHANGED << progVars, init_mask, cbVars, t2Vars, count, mutex, envVars,
                    repVars, cbHist, captured, taskHist >>

\* the lines change while no handler is registered: nobody is notified
InputChange(s) ==
    /\ ~static_callback
    /\ s # simulated_state
    /\ simulated_state' = s
    /\ UNCHANGED << progVars, initVars, cbVars, taskVars, mutex,
                    static_callback, repVars, cbHist, captured, taskHist >>

\* new_state & monitored_mask: every monitored bit that is 1
RisingEdges_Level(prev, new, mask) == And32(new, mask)

\* ~previous_state & new_state: every bit that rose
RisingEdges_NoMask(prev, new, mask) == And32(Not32(prev), new)

\* rising_edges = (~previous_state & new_state) & monitored_mask;
RisingEdges(prev, new, mask) == And32(And32(Not32(prev), new), mask)

\* the number of bit positions that are 0 in prev, 1 in new and 1 in mask
Popcount(prev, new, mask) ==
    Cardinality({ b \in BitPos : b \notin prev /\ b \in new /\ b \in mask })

\* if (rising_edges) previous_state = new_state;
NextPrevious_OnEdge(prev, new, rising) == IF rising # {} THEN new ELSE prev

\* previous_state = new_state;
NextPrevious(prev, new, rising) == new

\* the input source invokes the registered handler with the new sample; the
\* handler computes the rising set, overwrites previous_state and returns at
\* once when the rising set is zero. Invocations do not overlap.
Deliver(s, limit) ==
    /\ static_callback
    /\ cb_pc = "idle"
    /\ notifs < limit
    /\ simulated_state' = s
    /\ new_state' = s
    /\ rising_edges' = RisingEdges(previous_state, s, monitored_mask)
    /\ previous_state' = NextPrevious(previous_state, s, rising_edges')
    /\ cb_pc' = IF rising_edges' # {} THEN "lock" ELSE "idle"
    /\ notifs' = notifs + 1
    /\ cb_prev' = IF rising_edges' # {} THEN previous_state ELSE {}
    /\ captured' = IF rising_edges' # {} THEN captured ELSE {}
    /\ expected' = Add32(expected, Popcount(previous_state, s, monitored_mask))
    /\ idle_drain' = FALSE
    /\ UNCHANGED << event_count, monitored_mask, initVars, i, cb_tmp,
                    taskVars, mutex, static_callback, repVars, sum_c,
                    cb_base, outstanding, drained, sleeps >>

\* the handler enters its loop without waiting for the mutex
Cb_lock_NoWait ==
    /\ cb_pc = "lock"
    /\ i' = 0
    /\ cb_base' = event_count
    /\ cb_pc' = "loop"
    /\ UNCHANGED << progVars, initVars, new_state, rising_edges, cb_tmp,
                    taskVars, mutex, envVars, repVars, notifs, sum_c,
                    expected, cb_prev, captured, taskHist >>

Notify(s) == Deliver(s, MaxNotifs)

NotifyFair(s) == Deliver(s, MaxFairNotifs)

\* rtos_mutex_lock() in the handler: granted only when the mutex is free
Cb_lock ==
    /\ cb_pc = "lock"
    /\ mutex = "free"
    /\ mutex' = "cb"
    /\ i' = 0
    /\ cb_base' = event_count
    /\ cb_pc' = "loop"
    /\ UNCHANGED << progVars, initVars, new_state, rising_edges, cb_tmp,
                    taskVars, envVars, repVars, notifs, sum_c, expected,
                    cb_prev, captured, taskHist >>

\* i < 31
LoopCond_Short(n) == n < NBITS - 1

\* i < 32
LoopCond(n) == n < NBITS

\* rising_edges & (1u << i)
BitSet(x, n) == n \in x

\* the iterations from i = n on whose if is false only execute ++i: the
\* value of i at the next iteration that increments, or at the loop's exit
RECURSIVE Scan(_, _)
Scan(x, n) ==
    IF LoopCond(n) /\ ~BitSet(x, n) THEN Scan(x, n + 1) ELSE n

\* the loop runs, touching only the local i, up to its next iteration whose
\* bit is set, where ++event_count loads the counter, or up to its exit
Cb_loop ==
    /\ cb_pc = "loop"
    /\ i' = Scan(rising_edges, i)
    /\ IF LoopCond(i')
         THEN /\ cb_tmp' = event_count
              /\ cb_pc' = "incr"
         ELSE /\ cb_pc' = "unlock"
              /\ UNCHANGED cb_tmp
    /\ UNCHANGED << progVars, initVars, new_state, rising_edges, taskVars,
                    mutex, envVars, repVars, cbHist, captured, taskHist >>

\* the handler also clears the bit it has counted from the mask
Cb_incr_ClearMask ==
    /\ cb_pc = "incr"
    /\ event_count' = Inc32(cb_tmp)
    /\ monitored_mask' = monitored_mask \ {i}
    /\ i' = i + 1
    /\ cb_pc' = "loop"
    /\ UNCHANGED << previous_state, initVars, new_state, rising_edges,
                    cb_tmp, taskVars, mutex, envVars, repVars, cbHist,
                    captured, taskHist >>

\* the store of ++event_count, then ++i
Cb_incr ==
    /\ cb_pc = "incr"
    /\ event_count' = Inc32(cb_tmp)
    /\ i' = i + 1
    /\ cb_pc' = "loop"
    /\ UNCHANGED << monitored_mask, previous_state, initVars, new_state,
                    rising_edges, cb_tmp, taskVars, mutex, envVars, repVars,
                    cbHist, captured, taskHist >>

\* rtos_mutex_unlock() in the handler, and its return; this notification's
\* c_i is the population count of its rising set
Cb_unlock ==
    /\ cb_pc = "unlock"
    /\ mutex' = "free"
    /\ cb_pc' = "idle"
    /\ rising_edges' = {}
    /\ i' = 0
    /\ cb_tmp' = 0
    /\ sum_c' = Add32(sum_c, Cardinality(rising_edges))
    /\ cb_prev' = {}
    /\ cb_base' = 0
    /\ captured' = {}
    /\ UNCHANGED << progVars, initVars, new_state, taskVars, envVars,
                    repVars, notifs, expected, taskHist >>

\* rtos_task_delay_ms(1000) returns
Task_delay ==
    /\ task_pc = "delay"
    /\ task_pc' = "lock"
    /\ sleeps' = sleeps + 1
    /\ UNCHANGED << progVars, initVars, cbVars, t2Vars, count, mutex, envVars,
                    repVars, cbHist, captured, outstanding, drained,
                    idle_drain >>

\* the task takes the mutex without waiting for it
Task_lock_NoWait ==
    /\ task_pc = "lock"
    /\ mutex' = "task"
    /\ task_pc' = "read"
    /\ UNCHANGED << progVars, initVars, cbVars, t2Vars, count, envVars, repVars,
                    cbHist, captured, taskHist >>

\* rtos_mutex_lock() in the task: granted only when the mutex is free
Task_lock ==
    /\ task_pc = "lock"
    /\ mutex = "free"
    /\ mutex' = "task"
    /\ task_pc' = "read"
    /\ UNCHANGED << progVars, initVars, cbVars, t2Vars, count, envVars, repVars,
                    cbHist, captured, taskHist >>

\* count = event_count;
Task_read ==
    /\ task_pc = "read"
    /\ count' = event_count
    /\ drained' = event_count
    /\ outstanding' = outstanding + 1
    /\ task_pc' = "reset"
    /\ UNCHANGED << progVars, initVars, cbVars, t2Vars, mutex, envVars, repVars,
                    cbHist, captured, idle_drain, sleeps >>

\* the drain leaves the counter as it is
Task_reset_Keep ==
    /\ task_pc = "reset"
    /\ idle_drain' = (cb_pc = "idle")
    /\ task_pc' = "unlock"
    /\ UNCHANGED << progVars, initVars, cbVars, t2Vars, count, mutex, envVars,
                    repVars, cbHist, captured, outstanding, drained, sleeps >>

\* the drain also clears the previous sample
Task_reset_ClearPrev ==
    /\ task_pc = "reset"
    /\ event_count' = 0
    /\ previous_state' = {}
    /\ idle_drain' = (cb_pc = "idle")
    /\ task_pc' = "unlock"
    /\ UNCHANGED << monitored_mask, initVars, cbVars, t2Vars, count, mutex,
                    envVars, repVars, cbHist, captured, outstanding, drained,
                    sleeps >>

\* event_count = 0;
Task_reset ==
    /\ task_pc = "reset"
    /\ event_count' = 0
    /\ idle_drain' = (cb_pc = "idle")
    /\ task_pc' = "unlock"
    /\ UNCHANGED << monitored_mask, previous_state, initVars, cbVars, t2Vars, count,
                    mutex, envVars, repVars, cbHist, captured, outstanding,
                    drained, sleeps >>

\* the task goes on to its report without releasing the mutex
Task_unlock_Forget ==
    /\ task_pc = "unlock"
    /\ task_pc' = "report"
    /\ UNCHANGED << progVars, initVars, cbVars, t2Vars, count, mutex, envVars,
                    repVars, cbHist, captured, taskHist >>

\* rtos_mutex_unlock() in the task
Task_unlock ==
    /\ task_pc = "unlock"
    /\ mutex' = "free"
    /\ task_pc' = "report"
    /\ UNCHANGED << progVars, initVars, cbVars, t2Vars, count, envVars, repVars,
                    cbHist, captured, taskHist >>

\* if (count) report_event_count(count);
Task_report_NonZero ==
    /\ task_pc = "report"
    /\ IF count # 0
         THEN /\ total_events_counted' = Add32(total_events_counted, count)
              /\ last_report' = count
              /\ reports' = TRUE
              /\ outstanding' = outstanding - 1
         ELSE UNCHANGED << repVars, outstanding >>
    /\ task_pc' = "delay"
    /\ sleeps' = 0
    /\ UNCHANGED << progVars, initVars, cbVars, t2Vars, count, mutex, envVars,
                    cbHist, captured, drained, idle_drain >>

\* the task returns after its first report
Task_report_Once ==
    /\ task_pc = "report"
    /\ total_events_counted' = Add32(total_events_counted, count)
    /\ last_report' = count
    /\ reports' = TRUE
    /\ outstanding' = outstanding - 1
    /\ task_pc' = "none"
    /\ sleeps' = 0
    /\ UNCHANGED << progVars, initVars, cbVars, t2Vars, count, mutex, envVars,
                    cbHist, captured, drained, idle_drain >>

\* report_event_count(count); the consumer adds count to its total
Task_report ==
    /\ task_pc = "report"
    /\ total_events_counted' = Add32(total_events_counted, count)
    /\ last_report' = count
    /\ reports' = TRUE
    /\ outstanding' = outstanding - 1
    /\ task_pc' = "delay"
    /\ sleeps' = 0
    /\ UNCHANGED << progVars, initVars, cbVars, t2Vars, count, mutex, envVars,
                    cbHist, captured, drained, idle_drain >>

InitNext == Init_store_mask \/ Init_capture \/ Init_register \/ Init_create

CbNext == Cb_lock \/ Cb_loop \/ Cb_incr \/ Cb_unlock

TaskNext ==
    \/ Task_delay
    \/ Task_lock
    \/ Task_read
    \/ Task_reset
    \/ Task_unlock
    \/ Task_report

Next ==
    \/ InitNext
    \/ \E s \in Samples : InputChange(s)
    \/ \E s \in Samples : Notify(s)
    \/ CbNext
    \/ TaskNext

Spec == Init /\ [][Next]_vars

\* fair scheduling: event_monitor_init and the handler run to completion,
\* the task's sleep returns and its statements are executed, and the mutex
\* is eventually granted to the task when it is free again and again (the
\* task has one enabled step at a time, and only Task_lock can be disabled
\* by the handler)
FairNext ==
    \/ InitNext
    \/ \E s \in Samples : InputChange(s)
    \/ \E s \in Samples : NotifyFair(s)
    \/ CbNext
    \/ TaskNext

FairSpec ==
    /\ Init
    /\ [][FairNext]_vars
    /\ WF_vars(InitNext)
    /\ WF_vars(CbNext)
    /\ SF_vars(TaskNext)

\* counter values two increments short of 0x80000000 and of 2^32
WrapStarts == { INT32_MAX - 1, -2 }

\* the system some time after initialisation: the handler is registered and
\* idle, the task is in its first sleep and has not been scheduled since,
\* and the handler has counted event_count events, none of them drained
\* (notifs counts the notifications delivered from here on)
WrapInit ==
    /\ event_count \in WrapStarts
    /\ monitored_mask \in Masks
    /\ init_mask = monitored_mask
    /\ simulated_state \in Inputs
    /\ previous_state = simulated_state
    /\ new_state = simulated_state
    /\ init_pc = "done"
    /\ static_callback = TRUE
    /\ cb_pc = "idle"
    /\ rising_edges = {}
    /\ i = 0
    /\ cb_tmp = 0
    /\ task_pc = "delay"
    /\ count = 0
    /\ task2_pc = "none"
    /\ count2 = 0
    /\ mutex = "free"
    /\ total_events_counted = 0
    /\ last_report = 0
    /\ notifs = 0
    /\ sum_c = event_count
    /\ expected = event_count
    /\ cb_prev = {}
    /\ cb_base = 0
    /\ captured = {}
    /\ outstanding = 0
    /\ drained = 0
    /\ reports = FALSE
    /\ idle_drain = FALSE
    /\ sleeps = 0

WrapNext ==
    \/ \E s \in Samples : Notify(s)
    \/ CbNext
    \/ TaskNext

WrapSpec == WrapInit /\ [][WrapNext]_vars

\* ------------------------------------------- a second event_monitor_init call

\* notifications delivered in a run with a second event_monitor_init call
MaxReinitNotifs == 2

NotifyReinit(s) == Deliver(s, MaxReinitNotifs)

\* the second call also clears the counter
Reinit_call_Reset(m) ==
    /\ init_pc = "done"
    /\ task_pc # "none"
    /\ task2_pc = "none"
    /\ init_mask' = m
    /\ init_pc' = "mask"
    /\ event_count' = 0
    /\ UNCHANGED << monitored_mask, previous_state, cbVars, taskVars, mutex,
                    envVars, repVars, cbHist, captured, taskHist >>

\* event_monitor_init(m) is called again after the first call has returned;
\* nothing in the function prevents it
Reinit_call(m) ==
    /\ init_pc = "done"
    /\ task_pc # "none"
    /\ task2_pc = "none"
    /\ init_mask' = m
    /\ init_pc' = "mask"
    /\ UNCHANGED << progVars, cbVars, taskVars, mutex, envVars, repVars,
                    cbHist, captured, taskHist >>

\* rtos_task_create(&task, monitor_task, NULL) of the second call: one more
\* task starts at the loop of monitor_task
Init_create2 ==
    /\ init_pc = "create"
    /\ task_pc # "none"
    /\ task2_pc = "none"
    /\ task2_pc' = "delay"
    /\ init_pc' = "done"
    /\ UNCHANGED << progVars, init_mask, cbVars, task_pc, count, count2,
                    mutex, envVars, repVars, cbHist, captured, taskHist >>

\* rtos_task_delay_ms(1000); in the second task
Task2_delay ==
    /\ task2_pc = "delay"
    /\ task2_pc' = "lock"
    /\ UNCHANGED << progVars, initVars, cbVars, task_pc, count, count2,
                    mutex, envVars, repVars, cbHist, captured, taskHist >>

\* rtos_mutex_lock() in the second task
Task2_lock ==
    /\ task2_pc = "lock"
    /\ mutex = "free"
    /\ mutex' = "task2"
    /\ task2_pc' = "read"
    /\ UNCHANGED << progVars, initVars, cbVars, task_pc, count, count2,
                    envVars, repVars, cbHist, captured, taskHist >>

\* count = event_count; in the second task
Task2_read ==
    /\ task2_pc = "read"
    /\ count2' = event_count
    /\ task2_pc' = "reset"
    /\ UNCHANGED << progVars, initVars, cbVars, task_pc, count, mutex,
                    envVars, repVars, cbHist, captured, taskHist >>

\* event_count = 0; in the second task
Task2_reset ==
    /\ task2_pc = "reset"
    /\ event_count' = 0
    /\ task2_pc' = "unlock"
    /\ UNCHANGED << monitored_mask, previous_state, initVars, cbVars,
                    task_pc, count, count2, mutex, envVars, repVars, cbHist,
                    captured, taskHist >>

\* rtos_mutex_unlock() in the second task
Task2_unlock ==
    /\ task2_pc = "unlock"
    /\ mutex' = "free"
    /\ task2_pc' = "report"
    /\ UNCHANGED << progVars, initVars, cbVars, task_pc, count, count2,
                    envVars, repVars, cbHist, captured, taskHist >>

\* report_event_count(count); in the second task
Task2_report ==
    /\ task2_pc = "report"
    /\ total_events_counted' = Add32(total_events_counted, count2)
    /\ last_report' = count2
    /\ reports' = TRUE
    /\ task2_pc' = "delay"
    /\ UNCHANGED << progVars, initVars, cbVars, task_pc, count, count2,
                    mutex, envVars, cbHist, captured, taskHist >>

Task2Next ==
    \/ Task2_delay
    \/ Task2_lock
    \/ Task2_read
    \/ Task2_reset
    \/ Task2_unlock
    \/ Task2_report

ReinitNext ==
    \/ InitNext
    \/ \E m \in Masks : Reinit_call(m)
    \/ Init_create2
    \/ \E s \in Samples : InputChange(s)
    \/ \E s \in Samples : NotifyReinit(s)
    \/ CbNext
    \/ TaskNext
    \/ Task2Next

ReinitSpec == Init /\ [][ReinitNext]_vars

\* ------------------------------------------------------------ properties
\* the value a drain has read and not yet handed to report_event_count
InFlight == IF task_pc = "report" THEN count ELSE 0

\* C1 as stated: whenever the mutex is free, the sum of the values passed to
\* report_event_count plus event_count equals the sum of all c_i
C1_AsStated ==
    (mutex = "free") => (total_events_counted + event_count = sum_c)

\* C1 (no loss): whenever the mutex is free, the sum of the values passed to
\* report_event_count, plus event_count, plus the value a finished drain has
\* read and not yet reported, equals the sum of the c_i of the notifications
\* that have finished: no increment is lost and none is counted twice
C1_NoLoss ==
    (mutex = "free") =>
        (total_events_counted + event_count + InFlight = sum_c)

\* some events reported, some drained and about to be reported, some pending
C1_Witness ==
    /\ mutex = "free"
    /\ task_pc = "report"
    /\ count > 0
    /\ total_events_counted > 0
    /\ event_count > 0

\* C2 (popcount): a call of gpio_change_callback that has finished its loop
\* has increased event_count by exactly the population count of
\* (~prev & new) & mask, and once every delivered notification has finished
\* and been drained and reported, the reported total is the sum of those
\* population counts
C2_Popcount ==
    /\ (cb_pc = "unlock") =>
           (event_count = cb_base + Popcount(cb_prev, new_state, monitored_mask))
    /\ (cb_pc = "idle" /\ task_pc \in {"delay", "lock", "read"} /\ event_count = 0)
           => (total_events_counted = expected)

\* 0x00 -> 0xFF under mask 0x800000FF: eight events, one drain reports them
C2_Witness ==
    /\ cb_pc = "idle"
    /\ task_pc = "delay"
    /\ event_count = 0
    /\ notifs = 1
    /\ last_report = 8
    /\ total_events_counted = 8

\* the number of increments the handler's loop has made so far
DoneSoFar == Cardinality({ b \in rising_edges : b < i })

\* C3 (indivisible): no increment happens between a drain's read and its
\* reset, the handler is never between its lock and unlock while the task is
\* between its lock and unlock, and no drain happens in the middle of a
\* notification's increments (the counter is the value at the handler's lock
\* plus the increments it has made so far)
C3_Indivisible ==
    /\ (task_pc = "reset") => (event_count = count)
    /\ (task_pc \in {"read", "reset", "unlock"}) => (cb_pc \in {"idle", "lock"})
    /\ (cb_pc \in {"loop", "unlock"}) => (event_count = cb_base + DoneSoFar)
    /\ (cb_pc = "incr") => (cb_tmp = cb_base + DoneSoFar /\ event_count = cb_tmp)

\* the handler is half way through the eight increments of one notification
\* while the task waits for the mutex
C3_Witness ==
    /\ cb_pc = "loop"
    /\ Cardinality(rising_edges) = 8
    /\ DoneSoFar = 4
    /\ task_pc = "lock"
    /\ mutex = "cb"

\* the largest number of events a notification can contribute: the largest
\* population count of a mask
MaxPerCall ==
    CHOOSE n \in 0 .. NBITS :
        /\ \E m \in Masks : Cardinality(m) = n
        /\ \A m \in Masks : Cardinality(m) <= n

\* the events counted so far: reported, drained or still in event_count
Counted == total_events_counted + InFlight + event_count

\* C4 (eventually reported): under fair scheduling, once n events have been
\* counted, report_event_count calls eventually carry n events in total, and
\* monitor_task reports again and again for ever
C4_EventuallyReported ==
    /\ \A n \in 1 .. (MaxFairNotifs * MaxPerCall) :
           (Counted >= n) ~> (total_events_counted >= n)
    /\ []<><<Task_report>>_vars

\* events counted by two notifications have all been reported and the task
\* is sleeping again
C4_Witness ==
    /\ notifs = 2
    /\ sum_c >= 2
    /\ total_events_counted = sum_c
    /\ cb_pc = "idle"
    /\ task_pc = "delay"

\* C5 (never blocks): whenever an invocation of gpio_change_callback is in
\* progress, its next step can be taken at once, whatever monitor_task holds
C5_NeverBlocks == (cb_pc # "idle") => ENABLED CbNext

\* a new notification is entered by this step
Entered == notifs' = notifs + 1

\* the step leaves the handler returned and the counter as it was
NothingCounted == cb_pc' = "idle" /\ event_count' = event_count

\* C6 (only rises): every increment is made for a bit position that was 0 in
\* the previous sample and is 1 in the new one, once per call, and a
\* notification none of whose bits went from 0 to 1 (unchanged bits, falling
\* bits, a sample equal to the previous one) returns with event_count
\* unchanged
C6_OnlyRises ==
    /\ []((cb_pc # "idle") =>
             (rising_edges \cap cb_prev = {} /\ rising_edges \subseteq new_state))
    /\ []((cb_pc = "incr") =>
             (i \notin cb_prev /\ i \in new_state /\ cb_tmp = cb_base + DoneSoFar))
    /\ [][(Entered /\ new_state' \subseteq previous_state) => NothingCounted]_vars

\* bits 0 and 2 rose, fell and rise again under mask 0x05: counted twice each
C6_Witness ==
    /\ notifs = 3
    /\ monitored_mask = Field(5)
    /\ cb_pc = "unlock"
    /\ cb_prev = {}
    /\ new_state = Field(5)
    /\ expected = 4
    /\ cb_base + event_count + total_events_counted + InFlight >= 4

\* the bit positions in which two samples differ
Changed(x, y) == (x \ y) \cup (y \ x)

\* C7 (mask): increments are made only for bit positions that are 1 in the
\* mask, a notification whose changed bits are all outside the mask returns
\* with event_count unchanged, and with mask 0 event_count and every
\* reported value are 0
C7_MaskOnly ==
    /\ []((cb_pc # "idle") => (rising_edges \subseteq monitored_mask))
    /\ []((cb_pc = "incr") => (i \in monitored_mask))
    /\ []((init_mask = {}) =>
             (event_count = 0 /\ count = 0 /\ last_report = 0
                 /\ total_events_counted = 0))
    /\ [][(Entered /\ And32(Changed(previous_state, new_state'), monitored_mask) = {})
             => NothingCounted]_vars

\* all of 0x00 -> 0xFF under mask 0x05: two events
C7_Witness ==
    /\ cb_pc = "unlock"
    /\ monitored_mask = Field(5)
    /\ cb_prev = {}
    /\ new_state = Field(255)
    /\ event_count = cb_base + 2

\* C8 (idempotent drain): event_count is 0 until the handler is registered,
\* it is 0 after a drain's reset for as long as the task holds the mutex,
\* and a drain that follows a drain with no notification pending or
\* delivered in between reads 0
C8_DrainIdempotent ==
    /\ (~static_callback) => (event_count = 0)
    /\ (task_pc = "unlock") => (event_count = 0)
    /\ (task_pc = "reset" /\ idle_drain) => (count = 0)

\* a drain has reported events, and the next drain, with no notification in
\* between, has read 0
C8_Witness ==
    /\ task_pc = "reset"
    /\ idle_drain
    /\ reports
    /\ last_report > 0
    /\ count = 0

\* C9 (initial sample): until the first notification previous_state is the
\* input state event_monitor_init read, and the first notification counts
\* exactly the monitored bits that are 0 in that state and 1 in its sample
C9_InitialSample ==
    /\ []((notifs = 0 /\ init_pc \in {"register", "create", "done"})
             => (previous_state = captured))
    /\ []((notifs = 1 /\ cb_pc # "idle") =>
             /\ rising_edges \cap captured = {}
             /\ rising_edges =
                  { b \in monitored_mask : b \notin captured /\ b \in new_state })
    /\ []((notifs = 1 /\ cb_pc = "unlock") =>
             (event_count = cb_base + Popcount(captured, new_state, monitored_mask)))
    /\ [][(notifs = 0 /\ Entered /\ new_state' \subseteq captured)
             => NothingCounted]_vars

\* init read 0x03; the first notification 0xFF counts bits 2..7 only
C9_Witness ==
    /\ notifs = 1
    /\ cb_pc = "unlock"
    /\ captured = Field(3)
    /\ new_state = Field(255)
    /\ monitored_mask = Field(255) \cup TopBit
    /\ event_count = cb_base + 6

\* C10 (one report per drain): at most one drained value is waiting to be
\* reported, exactly while the task is between its read and its report; the
\* task leaves that position only by calling report_event_count with the
\* value the drain read, whether it is zero or not
C10_OneReportPerDrain ==
    /\ [](outstanding \in {0, 1})
    /\ []((outstanding = 1) <=> (task_pc \in {"reset", "unlock", "report"}))
    /\ []((outstanding = 1) => (count = drained))
    /\ [][(task_pc = "report" /\ task_pc' # "report") =>
             /\ outstanding' = 0
             /\ reports'
             /\ last_report' = drained
             /\ total_events_counted' = total_events_counted + drained]_vars

\* a drain that read 0 has been reported after one that read events
C10_Witness ==
    /\ task_pc = "delay"
    /\ reports
    /\ last_report = 0
    /\ drained = 0
    /\ total_events_counted > 0

\* the handler is between its lock and its unlock
CbInside == cb_pc \in {"loop", "incr", "unlock"}

\* the task is between its lock and its unlock
TaskInside == task_pc \in {"read", "reset", "unlock"}

\* C11 (mutual exclusion): the handler holds the mutex throughout its
\* increment loop and the task throughout its read-and-clear, the two are
\* never inside at the same time, and every load and every store of
\* event_count is made by a context that holds the mutex
C11_UnderMutex ==
    /\ [](CbInside => (mutex = "cb"))
    /\ [](TaskInside => (mutex = "task"))
    /\ [](~(CbInside /\ TaskInside))
    /\ [][(event_count' # event_count) =>
             \/ (cb_pc = "incr" /\ mutex = "cb" /\ mutex' = "cb")
             \/ (task_pc = "reset" /\ mutex = "task" /\ mutex' = "task")]_vars
    /\ [][(cb_pc = "loop" /\ cb_pc' = "incr") =>
             (mutex = "cb" /\ cb_tmp' = event_count)]_vars
    /\ [][(task_pc = "read" /\ task_pc' = "reset") =>
             (mutex = "task" /\ count' = event_count)]_vars

\* the handler is about to store its increment while the task waits at its
\* lock with events already in the counter
C11_Witness ==
    /\ cb_pc = "incr"
    /\ mutex = "cb"
    /\ task_pc = "lock"
    /\ event_count > 0

\* C12 (previous sample): every invocation of the handler stores its sample
\* in previous_state, whether its rising set is zero or not, so
\* previous_state is the sample delivered last, and the rising set of an
\* invocation is computed against the sample delivered before it
C12_PreviousIsLast ==
    /\ []((notifs > 0) =>
             (previous_state = new_state /\ previous_state = simulated_state))
    /\ [][Entered =>
             /\ previous_state' = new_state'
             /\ rising_edges' =
                  { b \in monitored_mask :
                        b \notin previous_state /\ b \in new_state' }]_vars

\* after a notification that counted events, one with a zero rising set
\* (every bit fell) has left previous_state at 0x00
C12_Witness ==
    /\ notifs = 2
    /\ cb_pc = "idle"
    /\ expected > 0
    /\ new_state = {}
    /\ previous_state = {}

\* the task has left its sleep and not yet finished its report
TaskAwake == task_pc \in {"lock", "read", "reset", "unlock", "report"}

\* C13 (only suspension point): the task sleeps exactly once before each
\* drain and report, and once it has returned from its sleep it is never
\* suspended: its next step can always be taken at once, also when it
\* acquires the mutex
C13_OnlySleepSuspends ==
    /\ TaskAwake => (sleeps = 1)
    /\ (task_pc \in {"none", "delay"}) => (sleeps = 0)
    /\ TaskAwake => ENABLED TaskNext

\* C14 (backlog): whatever was counted before a drain's read and not
\* reported earlier is in the value that drain read; while the task sleeps
\* or is in the consumer's callback the handler is never held up, and a
\* notification that finishes then adds its whole count to event_count for
\* the next drain
C14_BacklogKept ==
    /\ []((task_pc = "reset") => (total_events_counted + count = sum_c))
    /\ []((task_pc \in {"delay", "report"} /\ cb_pc # "idle") => ENABLED CbNext)
    /\ [][(task_pc \in {"delay", "report"} /\ cb_pc = "unlock" /\ cb_pc' = "idle")
             => /\ event_count' = cb_base + Cardinality(rising_edges)
                /\ sum_c' = sum_c + Cardinality(rising_edges)]_vars

\* 2 events were drained and reported; two more notifications (6 events and
\* 1 event) came before the next drain, which has read all 7
C14_Witness ==
    /\ task_pc = "reset"
    /\ notifs = 3
    /\ total_events_counted = 2
    /\ count = 7

\* C15 (mask): monitored_mask changes only in event_monitor_init's store of
\* its argument, and from that store on it equals the argument
C15_MaskFixed ==
    /\ []((init_pc # "mask") => (monitored_mask = init_mask))
    /\ [][(monitored_mask' # monitored_mask) =>
             (init_pc = "mask" /\ init_pc' = "capture"
                 /\ monitored_mask' = init_mask)]_vars

\* mask 0x05 after three notifications, events counted, drained and reported
C15_Witness ==
    /\ init_pc = "done"
    /\ monitored_mask = Field(5)
    /\ notifs = 3
    /\ reports
    /\ total_events_counted > 0

\* C16 (wrap): with the counter started close to 0x80000000 or to 2^32, the
\* counter after each increment of a notification is the value at the
\* handler's lock plus the increments made, modulo 2^32; the value a drain
\* reads is, modulo 2^32, everything counted less everything reported
\* before; and modulo 2^32 nothing is lost when the mutex is free
C16_WrapsMod32 ==
    /\ event_count \in U32
    /\ (cb_pc \in {"loop", "unlock"}) => (event_count = Add32(cb_base, DoneSoFar))
    /\ (task_pc = "reset") => (Add32(total_events_counted, count) = sum_c)
    /\ (mutex = "free") =>
           (Add32(Add32(total_events_counted, event_count), InFlight) = sum_c)

\* 0xFFFFFFFE + 8: the counter has wrapped and the drain has read 6
C16_Witness ==
    /\ task_pc = "reset"
    /\ notifs = 1
    /\ sum_c = 6
    /\ count = 6
    /\ total_events_counted = 0

\* C17 (order of initialisation): event_monitor_init stores the mask, then
\* reads the inputs into previous_state, then registers the handler, then
\* creates the task; the handler is registered, and so invoked, only with
\* the mask and the previous sample set; and what it counts before the task
\* exists stays in event_count and is read by the first drain
C17_InitOrder ==
    /\ [](static_callback =>
             /\ init_pc \in {"create", "done"}
             /\ monitored_mask = init_mask
             /\ (notifs = 0 => previous_state = captured))
    /\ []((cb_pc # "idle" \/ notifs > 0) => static_callback)
    /\ []((task_pc # "none") => (init_pc = "done"))
    /\ []((task_pc = "none" /\ mutex = "free") =>
             (event_count = sum_c /\ total_events_counted = 0))
    /\ []((task_pc = "reset" /\ ~reports) => (count = sum_c))
    /\ [][(init_pc' # init_pc) =>
             \/ /\ init_pc = "mask" /\ init_pc' = "capture"
                /\ monitored_mask' = init_mask
                /\ ~static_callback' /\ task_pc' = "none"
             \/ /\ init_pc = "capture" /\ init_pc' = "register"
                /\ previous_state' = simulated_state
                /\ ~static_callback' /\ task_pc' = "none"
             \/ /\ init_pc = "register" /\ init_pc' = "create"
                /\ static_callback' /\ task_pc' = "none"
             \/ /\ init_pc = "create" /\ init_pc' = "done"
                /\ task_pc' = "delay"]_vars

\* the handler has counted events and returned before the task is created
C17_Witness ==
    /\ init_pc = "create"
    /\ task_pc = "none"
    /\ cb_pc = "idle"
    /\ event_count > 0

\* what the second task has read and not yet passed to report_event_count
InFlight2 == IF task2_pc = "report" THEN count2 ELSE 0

\* C18 (init keeps the counter): no step of event_monitor_init, in its first
\* or in a repeated call, changes event_count; so across a repeated call no
\* counted event is lost: whenever the mutex is free, what has been reported,
\* plus event_count, plus what a task has drained and not yet reported, is
\* the sum of the c_i of the finished notifications; and the last step of
\* each call starts one more task running monitor_task
C18_InitKeepsCount ==
    /\ [][(init_pc' # init_pc) => (event_count' = event_count)]_vars
    /\ [](mutex = "free" =>
            total_events_counted + event_count + InFlight + InFlight2 = sum_c)
    /\ [][(init_pc = "create" /\ init_pc' = "done") =>
            IF task_pc = "none"
              THEN task_pc' = "delay" /\ task2_pc' = task2_pc
              ELSE task2_pc' = "delay" /\ task_pc' = task_pc]_vars

\* the second call has stored its mask while counted events were pending
C18_Witness ==
    /\ init_pc = "capture"
    /\ task_pc # "none"
    /\ event_count > 0
    /\ mutex = "free"
    /\ total_events_counted = 0

\* event_monitor_init has not finished its writes of the two variables
InitWriting == init_pc \in {"mask", "capture"}

\* C19 (previous_state has one owner at a time): previous_state is written
\* only by the entry of gpio_change_callback, which neither holds nor takes
\* the mutex, and by the capture of event_monitor_init; no step of
\* monitor_task changes previous_state or monitored_mask; while
\* event_monitor_init is still writing, no handler is registered or running;
\* and a handler invocation starts only when the previous one has returned
C19_PreviousOneOwner ==
    /\ [][(previous_state' # previous_state) =>
             \/ (Entered /\ cb_pc = "idle" /\ mutex # "cb" /\ mutex' = mutex)
             \/ (init_pc = "capture" /\ init_pc' = "register")]_vars
    /\ [][(task_pc' # task_pc) =>
             (previous_state' = previous_state
              /\ monitored_mask' = monitored_mask)]_vars
    /\ [](InitWriting => (~static_callback /\ cb_pc = "idle"))
    /\ [][Entered => (cb_pc = "idle" /\ ~InitWriting)]_vars

\* the handler has overwritten previous_state while the task held the mutex
\* for its read-and-clear
C19_Witness ==
    /\ task_pc = "reset"
    /\ mutex = "task"
    /\ cb_pc = "lock"
    /\ previous_state = new_state
    /\ previous_state # cb_prev

\* a notification whose rising set is zero returns at once: no mutex
\* operation, event_count as it was
ZeroRiseReturns ==
    [][(Entered /\ rising_edges' = {}) =>
          (mutex' = mutex /\ event_count' = event_count /\ cb_pc' = "idle")]_vars

\* the mutex is held exactly between a context's lock and its unlock, where
\* there is neither a sleep nor a report, and the holder's next step is never
\* held up, so every acquisition is followed by the holder's release
HeldOnlyInside ==
    /\ [](mutex = "cb" <=> CbInside)
    /\ [](mutex = "task" <=> TaskInside)
    /\ [](mutex = "cb" => ENABLED CbNext)
    /\ [](mutex = "task" => ENABLED TaskNext)

\* the task is in rtos_task_delay_ms or in report_event_count
SleepingOrReporting == task_pc \in {"delay", "report"}

\* C20 as stated: ... so the mutex is free whenever the task is sleeping or
\* reporting
C20_AsStated ==
    /\ ZeroRiseReturns
    /\ HeldOnlyInside
    /\ [](SleepingOrReporting => mutex = "free")

\* C20 (mutex discipline): a notification whose rising set is zero takes no
\* mutex and leaves event_count unchanged; every acquisition by the handler
\* or the task is followed by its release with no sleep and no report while
\* the mutex is held; so the task never holds the mutex while it is sleeping
\* or reporting (the handler may hold it then)
C20_TaskFreeOutside ==
    /\ ZeroRiseReturns
    /\ HeldOnlyInside
    /\ [](SleepingOrReporting => mutex # "task")

\* after a notification that raised nothing, the handler holds the mutex for
\* a second notification while the task is reporting an empty drain
C20_Witness ==
    /\ notifs = 2
    /\ sum_c = 0
    /\ mutex = "cb"
    /\ cb_pc = "incr"
    /\ task_pc = "report"

====
